---- MODULE Spec2Model ----
(***************************************************************************)
(* Traffic Run: the game-session transitions of src/stackr/transitions.ts  *)
(* applied one at a time to the store of src/stackr/state.ts.              *)
(*                                                                         *)
(* A handler is an operator from (store, inputs, msgSender, block) to an   *)
(* outcome [games, events, threw]; an action draws the inputs, applies the *)
(* handler and installs its outcome.                                       *)
(***************************************************************************)
EXTENDS Integers, Sequences, FiniteSets, TLC

VARIABLES games, events, threw, call, repeated, created, leftLast, steps

vars == <<games, events, threw, call, repeated, created, leftLast, steps>>

(* ------------------------------ bounds --------------------------------- *)

\* Transitions applied in one run of the machine holding several games.
MaxSteps == 3

\* Games in the store of the machine holding several games.
MaxGames == 2

\* Largest score followed in the machine holding one game.
MaxScore == 1

(* ------------------------------ domains -------------------------------- *)

\* Caller identities and declared owners: two spellings of one address and
\* a second address.
Addresses == {"0xa", "0xA", "0xb"}

\* String.prototype.toLowerCase on the addresses above.
toLowerCase(s) == IF s = "0xA" THEN "0xa" ELSE s

\* block.timestamp and the timestamp inputs (UINT): an odd and an even one.
Times == {1, 2}

\* initialSpeed (UINT): zero, and a speed other than the 1 of a reset game.
Speeds == {0, 2}

\* startedAt (UINT), kept apart from Times so that no timestamp passes for it.
StartTimes == {100}

\* actionType (STRING): the two moves and a string that is neither.
ActionTypes == {"moveLeft", "moveRight", "accelerate"}

\* null, and a number, in a field of type number | null.
Null == <<>>
Some(t) == <<t>>

\* Variant of hashMessage: the number of games is left out of the message.
hashMessage_noCount(sender, timestamp, count) == <<sender, timestamp, 0>>

\* hashMessage of `${msgSender}::${timestamp}::${count}`, taken to be
\* injective: the digest is written as the triple it was computed from.
hashMessage(sender, timestamp, count) == <<sender, timestamp, count>>

\* A string that is no digest, written in the shape of an id.
Str(text) == <<text, 0, 0>>

\* The empty string, for a transition that names no game.
NoId == Str("")

\* An id under which no game was ever created.
UnknownId == Str("0xdead")

\* Names every object inherits from Object.prototype: state.games[name] is a
\* truthy value that is no Game (a function), and its .owner is undefined.
ObjectPrototypeKeys == {Str("constructor")}

(* ------------------------------ helpers -------------------------------- *)

Event(name, value) == [name |-> name, value |-> value]

\* The names of the events emitted, in order.
Names(evs) == [i \in 1..Len(evs) |-> evs[i].name]

\* Variant of generateObstacles: the lane is drawn from three lanes.
generateObstacles_threeLanes(timestamp) == [lane |-> timestamp % 3, z |-> -70]

\* generateObstacles(timestamp)
generateObstacles(timestamp) == [lane |-> timestamp % 2, z |-> -70]

\* `!game` for game = state.games[gameId]
NotFound(state, gameId) ==
    /\ gameId \notin DOMAIN state
    /\ gameId \notin ObjectPrototypeKeys

\* game = state.games[gameId] is an inherited property, not a Game:
\* game.owner.toLowerCase() raises a TypeError.
Inherited(state, gameId) ==
    /\ gameId \notin DOMAIN state
    /\ gameId \in ObjectPrototypeKeys

\* Variant of NotOwner: the two identities compared as written.
NotOwner_caseSensitive(game, msgSender) == game.owner # msgSender

\* game.owner.toLowerCase() !== msgSender.toLowerCase()
NotOwner(game, msgSender) == toLowerCase(game.owner) # toLowerCase(msgSender)

Returned(state, evs) == [games |-> state, events |-> evs, threw |-> FALSE]

\* The handler raised: nothing is returned, the store stays as it was.
Thrown(state) == [games |-> state, events |-> <<>>, threw |-> TRUE]

\* Variant of Put: the store is replaced by one holding only this game.
Put_replaceStore(state, gameId, game) ==
    [id \in {gameId} |-> game]

\* Variant of Put: the record is written under every key of the store.
Put_everyGame(state, gameId, game) ==
    [id \in DOMAIN state \cup {gameId} |-> game]

\* state.games[gameId] = game
Put(state, gameId, game) ==
    [id \in DOMAIN state \cup {gameId} |-> IF id = gameId THEN game ELSE state[id]]

(* ------------------------------ handlers ------------------------------- *)

\* Variant of newGame: the score starts at 0.
newGame_scoreZero(gameId, inputs, block) ==
    [gameId |-> gameId,
     owner |-> inputs.owner,
     carPosition |-> 1,
     speed |-> inputs.initialSpeed,
     score |-> 0,
     obstacle |-> generateObstacles(block),
     isGameOver |-> FALSE,
     startedAt |-> inputs.startedAt,
     endedAt |-> Null]

\* The Game that createGame stores.
newGame(gameId, inputs, block) ==
    [gameId |-> gameId,
     owner |-> inputs.owner,
     carPosition |-> 1,
     speed |-> inputs.initialSpeed,
     score |-> -1,
     obstacle |-> generateObstacles(block),
     isGameOver |-> FALSE,
     startedAt |-> inputs.startedAt,
     endedAt |-> Null]

\* Variant of createGame: the InvalidSigner branch does not return, and the
\* game is stored after the event.
createGame_noReturn(state, inputs, msgSender, block) ==
    LET gameId == hashMessage(msgSender, block, Cardinality(DOMAIN state))
        stored == Put(state, gameId, newGame(gameId, inputs, block))
    IN IF toLowerCase(msgSender) # toLowerCase(inputs.owner)
       THEN Returned(stored, <<Event("InvalidSigner", <<msgSender>>),
                               Event("GameCreated", gameId)>>)
       ELSE Returned(stored, <<Event("GameCreated", gameId)>>)

createGame(state, inputs, msgSender, block) ==
    IF toLowerCase(msgSender) # toLowerCase(inputs.owner)
    THEN Returned(state, <<Event("InvalidSigner", <<msgSender>>)>>)
    ELSE LET gameId == hashMessage(msgSender, block, Cardinality(DOMAIN state))
         IN Returned(Put(state, gameId, newGame(gameId, inputs, block)),
                     <<Event("GameCreated", gameId)>>)

\* Variant of moveLeft: the move is made, and announced, from lane 0 too.
moveLeft_unguarded(state, gameId, game) ==
    Returned(Put(state, gameId, [game EXCEPT !.carPosition = 0]),
             <<Event("CarMovedLeft", <<0>>)>>)

\* case "moveLeft"
moveLeft(state, gameId, game) ==
    IF game.carPosition = 1
    THEN Returned(Put(state, gameId, [game EXCEPT !.carPosition = 0]),
                  <<Event("CarMovedLeft", <<0>>)>>)
    ELSE Returned(state, <<>>)

\* Variant of moveRight for three lanes: the car moves right from lane 1 too.
moveRight_threeLanes(state, gameId, game) ==
    IF game.carPosition < 2
    THEN Returned(Put(state, gameId, [game EXCEPT !.carPosition = game.carPosition + 1]),
                  <<Event("CarMovedRight", <<game.carPosition + 1>>)>>)
    ELSE Returned(state, <<>>)

\* case "moveRight"
moveRight(state, gameId, game) ==
    IF game.carPosition = 0
    THEN Returned(Put(state, gameId, [game EXCEPT !.carPosition = 1]),
                  <<Event("CarMovedRight", <<1>>)>>)
    ELSE Returned(state, <<>>)

\* Variant of invalidAction: an unknown action speeds the car up, silently.
invalidAction_accelerate(state, gameId, game, actionType) ==
    Returned(Put(state, gameId, [game EXCEPT !.speed = game.speed + 1]), <<>>)

\* default
invalidAction(state, gameId, game, actionType) ==
    Returned(state, <<Event("InvalidAction", <<gameId, actionType>>)>>)

userMove(state, inputs, msgSender, block) ==
    LET gameId == inputs.gameId IN
    IF NotFound(state, gameId)
    THEN Returned(state, <<Event("GameNotFound", <<gameId>>)>>)
    ELSE IF Inherited(state, gameId) THEN Thrown(state)
    ELSE LET game == state[gameId] IN
    IF NotOwner(game, msgSender)
    THEN Returned(state, <<Event("UnauthorizedAction", <<msgSender, gameId>>)>>)
    ELSE CASE inputs.actionType = "moveLeft" -> moveLeft(state, gameId, game)
           [] inputs.actionType = "moveRight" -> moveRight(state, gameId, game)
           [] OTHER -> invalidAction(state, gameId, game, inputs.actionType)

\* Variant of generateObstacleAndScoreUpdate: a game that is over is frozen.
generateObstacleAndScoreUpdate_frozen(state, inputs, msgSender, block) ==
    LET gameId == inputs.gameId IN
    IF NotFound(state, gameId)
    THEN Returned(state, <<Event("GameNotFound", <<gameId>>)>>)
    ELSE IF Inherited(state, gameId) THEN Thrown(state)
    ELSE LET game == state[gameId] IN
    IF NotOwner(game, msgSender)
    THEN Returned(state, <<Event("UnauthorizedAction", <<msgSender, gameId>>)>>)
    ELSE IF game.isGameOver THEN Returned(state, <<>>)
    ELSE LET score == game.score + game.speed
             updated == [game EXCEPT !.obstacle = generateObstacles(inputs.timestamp),
                                     !.score = score]
         IN Returned(Put(state, gameId, updated),
                     <<Event("ObstacleGenerated", <<inputs.timestamp % 2>>),
                       Event("ScoreUpdated", <<gameId, score>>)>>)

generateObstacleAndScoreUpdate(state, inputs, msgSender, block) ==
    LET gameId == inputs.gameId IN
    IF NotFound(state, gameId)
    THEN Returned(state, <<Event("GameNotFound", <<gameId>>)>>)
    ELSE IF Inherited(state, gameId) THEN Thrown(state)
    ELSE LET game == state[gameId] IN
    IF NotOwner(game, msgSender)
    THEN Returned(state, <<Event("UnauthorizedAction", <<msgSender, gameId>>)>>)
    ELSE LET score == game.score + game.speed
             updated == [game EXCEPT !.obstacle = generateObstacles(inputs.timestamp),
                                     !.score = score]
         IN Returned(Put(state, gameId, updated),
                     <<Event("ObstacleGenerated", <<inputs.timestamp % 2>>),
                       Event("ScoreUpdated", <<gameId, score>>)>>)

\* Variant of markOver: endedAt is recorded only when the game is marked over.
markOver_onlyWhenOver(game, inputs) ==
    [game EXCEPT !.isGameOver = inputs.over,
                 !.endedAt = IF inputs.over THEN Some(inputs.timestamp) ELSE game.endedAt]

\* Variant of markOver: only the flag is written.
markOver_flagOnly(game, inputs) ==
    [game EXCEPT !.isGameOver = inputs.over]

\* game.isGameOver = over; game.endedAt = timestamp
markOver(game, inputs) ==
    [game EXCEPT !.isGameOver = inputs.over,
                 !.endedAt = Some(inputs.timestamp)]

gameOver(state, inputs, msgSender) ==
    LET gameId == inputs.gameId IN
    IF NotFound(state, gameId)
    THEN Returned(state, <<Event("GameNotFound", <<gameId>>)>>)
    ELSE IF Inherited(state, gameId) THEN Thrown(state)
    ELSE LET game == state[gameId] IN
    IF NotOwner(game, msgSender)
    THEN Returned(state, <<Event("UnauthorizedAction", <<msgSender, gameId>>)>>)
    ELSE Returned(Put(state, gameId, markOver(game, inputs)),
                  <<Event("GameOver", <<gameId, inputs.over>>)>>)

\* Variant of resetState: the score is carried over from the game being reset.
resetState_keepScore(game, block) ==
    [game EXCEPT !.carPosition = 1,
                 !.speed = 1,
                 !.obstacle = generateObstacles(block),
                 !.isGameOver = FALSE,
                 !.endedAt = Null]

\* Variant of resetState: the game also starts again at the block timestamp.
resetState_restart(game, block) ==
    [game EXCEPT !.carPosition = 1,
                 !.speed = 1,
                 !.score = 0,
                 !.obstacle = generateObstacles(block),
                 !.isGameOver = FALSE,
                 !.startedAt = block,
                 !.endedAt = Null]

\* { ...game, carPosition: 1, speed: 1, score: 0, obstacle, isGameOver, endedAt }
resetState(game, block) ==
    [game EXCEPT !.carPosition = 1,
                 !.speed = 1,
                 !.score = 0,
                 !.obstacle = generateObstacles(block),
                 !.isGameOver = FALSE,
                 !.endedAt = Null]

\* Variant of resetGame: the new obstacle is generated from the timestamp input.
resetGame_inputTime(state, inputs, msgSender, block) ==
    LET gameId == inputs.gameId IN
    IF NotFound(state, gameId)
    THEN Returned(state, <<Event("GameNotFound", <<gameId>>)>>)
    ELSE IF Inherited(state, gameId) THEN Thrown(state)
    ELSE LET game == state[gameId] IN
    IF NotOwner(game, msgSender)
    THEN Returned(state, <<Event("UnauthorizedReset", <<msgSender, gameId>>)>>)
    ELSE Returned(Put(state, gameId, resetState(game, inputs.timestamp)),
                  <<Event("GameReset", <<gameId>>)>>)

resetGame(state, inputs, msgSender, block) ==
    LET gameId == inputs.gameId IN
    IF NotFound(state, gameId)
    THEN Returned(state, <<Event("GameNotFound", <<gameId>>)>>)
    ELSE IF Inherited(state, gameId) THEN Thrown(state)
    ELSE LET game == state[gameId] IN
    IF NotOwner(game, msgSender)
    THEN Returned(state, <<Event("UnauthorizedReset", <<msgSender, gameId>>)>>)
    ELSE Returned(Put(state, gameId, resetState(game, block)),
                  <<Event("GameReset", <<gameId>>)>>)

(* ------------------------------ machine -------------------------------- *)

\* initialState
initialState == << >>

Init ==
    /\ games = initialState
    /\ events = <<>>
    /\ threw = FALSE
    /\ call = [name |-> "none", gameId |-> NoId, msgSender |-> "", timestamp |-> 0]
    /\ repeated = FALSE
    /\ created = << >>
    /\ leftLast = << >>
    /\ steps = 0

\* The gameId strings a caller submits: every stored id, an unknown one, and
\* a property name of Object.prototype.
GameIdInputs == DOMAIN games \cup {UnknownId} \cup ObjectPrototypeKeys

\* The machine applies a handler and keeps what it returned. call records the
\* transition applied: its name, the gameId it was given, its caller when
\* that game is in the store, and its timestamp input when it reset the game
\* or generated an obstacle for it. Three records of what has happened are
\* kept beside the store: repeated tells that this transition and the one
\* before it both reset the same game; created keeps the owner and startedAt
\* each game was given by the createGame that stored it; leftLast tells, per
\* game, whether the last move event emitted since the game was created or
\* reset is CarMovedLeft.
Apply(name, inputs, msgSender, outcome) ==
    \E returned \in {outcome} :
        LET gameId == IF name = "createGame" THEN NoId ELSE inputs.gameId
            first == IF returned.events = << >> THEN "" ELSE returned.events[1].name
        IN /\ games' = returned.games
           /\ events' = returned.events
           /\ threw' = returned.threw
           /\ call' = [name |-> name, gameId |-> gameId,
                       msgSender |-> IF gameId \in DOMAIN games THEN msgSender ELSE "",
                       timestamp |-> IF first \in {"GameReset", "ObstacleGenerated"}
                                     THEN inputs.timestamp ELSE 0]
           /\ repeated' = (/\ name = "resetGame"
                           /\ call.name = "resetGame"
                           /\ call.gameId = gameId
                           /\ first = "GameReset"
                           /\ events = returned.events)
           /\ created' = IF first = "GameCreated"
                         THEN (returned.events[1].value :>
                                  [owner |-> inputs.owner, startedAt |-> inputs.startedAt])
                              @@ created
                         ELSE created
           /\ leftLast' = CASE first = "GameCreated" ->
                                  (returned.events[1].value :> FALSE) @@ leftLast
                           [] first \in {"GameReset", "CarMovedRight"} ->
                                  (gameId :> FALSE) @@ leftLast
                           [] first = "CarMovedLeft" -> (gameId :> TRUE) @@ leftLast
                           [] OTHER -> leftLast

CreateGame ==
    \E msgSender \in Addresses, block \in Times,
       owner \in Addresses, initialSpeed \in Speeds, startedAt \in StartTimes :
        LET inputs == [owner |-> owner, initialSpeed |-> initialSpeed,
                       startedAt |-> startedAt]
        IN Apply("createGame", inputs, msgSender,
                 createGame(games, inputs, msgSender, block))

UserMove ==
    \E msgSender \in Addresses, block \in Times,
       gameId \in GameIdInputs, actionType \in ActionTypes, timestamp \in Times :
        LET inputs == [gameId |-> gameId, actionType |-> actionType,
                       timestamp |-> timestamp]
        IN Apply("userMove", inputs, msgSender,
                 userMove(games, inputs, msgSender, block))

GenerateObstacleAndScoreUpdate ==
    \E msgSender \in Addresses, block \in Times,
       gameId \in GameIdInputs, timestamp \in Times :
        LET inputs == [gameId |-> gameId, timestamp |-> timestamp]
        IN Apply("generateObstacleAndScoreUpdate", inputs, msgSender,
                 generateObstacleAndScoreUpdate(games, inputs, msgSender, block))

GameOver ==
    \E msgSender \in Addresses,
       gameId \in GameIdInputs, over \in BOOLEAN, timestamp \in Times :
        LET inputs == [gameId |-> gameId, over |-> over, timestamp |-> timestamp]
        IN Apply("gameOver", inputs, msgSender,
                 gameOver(games, inputs, msgSender))

ResetGame ==
    \E msgSender \in Addresses, block \in Times,
       gameId \in GameIdInputs, timestamp \in Times :
        LET inputs == [gameId |-> gameId, timestamp |-> timestamp]
        IN Apply("resetGame", inputs, msgSender,
                 resetGame(games, inputs, msgSender, block))

\* A handler failed: it threw, or it returned at a signer, existence or
\* ownership check.
Failed(evs, thrown) ==
    \/ thrown
    \/ \E i \in 1..Len(evs) :
           evs[i].name \in {"InvalidSigner", "GameNotFound",
                            "UnauthorizedAction", "UnauthorizedReset"}

\* The machine holding several games: at most MaxGames of them, followed for
\* MaxSteps transitions and up to its first failed transition. A failed
\* transition returns the store it was given, so the transitions after it are
\* those of the state before it.
Open == steps < MaxSteps /\ ~Failed(events, threw)

Wide ==
    /\ steps' = steps + 1
    /\ Cardinality(DOMAIN games') <= MaxGames

\* The machine holding one game, followed for any number of transitions
\* while its score is at most MaxScore.
Solo ==
    /\ steps' = steps
    /\ Cardinality(DOMAIN games') <= 1
    /\ \A id \in DOMAIN games' : games'[id].score <= MaxScore

\* transitions
Next ==
    \/ Open /\ CreateGame /\ Wide
    \/ Open /\ UserMove /\ Wide
    \/ Open /\ ResetGame /\ Wide
    \/ Open /\ GameOver /\ Wide
    \/ Open /\ GenerateObstacleAndScoreUpdate /\ Wide

Spec == Init /\ [][Next]_vars

NextSolo ==
    \/ CreateGame /\ Solo
    \/ UserMove /\ Solo
    \/ ResetGame /\ Solo
    \/ GameOver /\ Solo
    \/ GenerateObstacleAndScoreUpdate /\ Solo

SpecSolo == Init /\ [][NextSolo]_vars

\* The machine holding one game and following only the transitions that get
\* past their guards.
Passed == ~Failed(events', threw')

NextPlay ==
    \/ CreateGame /\ Solo /\ Passed
    \/ UserMove /\ Solo /\ Passed
    \/ ResetGame /\ Solo /\ Passed
    \/ GameOver /\ Solo /\ Passed
    \/ GenerateObstacleAndScoreUpdate /\ Solo /\ Passed

SpecPlay == Init /\ [][NextPlay]_vars

(* ------------------------------ properties ----------------------------- *)

\* Two identities are the same address when they differ at most in letter
\* case (stated without toLowerCase).
SameAddress(a, b) == a = b \/ {a, b} = {"0xa", "0xA"}

CreateInputs == [owner : Addresses, initialSpeed : Speeds, startedAt : StartTimes]

\* C1: in every reachable store, a createGame whose caller is not the declared
\* owner (letter case ignored) returns the store as it was and emits exactly
\* one event, InvalidSigner; no GameCreated, hence no gameId, is produced.
C1_InvalidSigner ==
    \A msgSender \in Addresses, block \in Times, inputs \in CreateInputs :
        ~SameAddress(msgSender, inputs.owner) =>
            LET r == createGame(games, inputs, msgSender, block)
            IN /\ r.games = games
               /\ Names(r.events) = <<"InvalidSigner">>
               /\ ~r.threw

\* A createGame by a stranger has just been refused on a store holding a game.
C1_Witness ==
    /\ call.name = "createGame"
    /\ Names(events) = <<"InvalidSigner">>
    /\ DOMAIN games # {}

\* C2: a createGame that emits GameCreated adds exactly one Game, under the
\* emitted id, which was no key of the store before; every Game already
\* stored is left as it was.
C2_FreshId ==
    [][(call'.name = "createGame" /\ Names(events') # <<"InvalidSigner">>) =>
          /\ Names(events') = <<"GameCreated">>
          /\ LET id == events'[1].value
             IN /\ id \notin DOMAIN games
                /\ DOMAIN games' = DOMAIN games \cup {id}
                /\ games'[id].gameId = id
                /\ \A other \in DOMAIN games : games'[other] = games[other]]_vars

\* The same caller has just created a second game at the block timestamp of
\* its first one.
C2_Witness ==
    /\ call.name = "createGame"
    /\ Names(events) = <<"GameCreated">>
    /\ \E a, b \in DOMAIN games :
          /\ a # b
          /\ a[1] = b[1]
          /\ a[2] = b[2]
          /\ b = events[1].value

\* C3: in every reachable store, a createGame by the declared owner at block
\* timestamp t emits exactly GameCreated with the new id, and the Game read
\* back under that id has the declared owner, carPosition 1, the given speed,
\* score -1, isGameOver false, the given startedAt, endedAt null and the
\* obstacle {lane: t mod 2, z: -70}.
C3_Created ==
    \A msgSender \in Addresses, block \in Times, inputs \in CreateInputs :
        SameAddress(msgSender, inputs.owner) =>
            LET r == createGame(games, inputs, msgSender, block)
                id == r.events[1].value
            IN /\ Names(r.events) = <<"GameCreated">>
               /\ id \in DOMAIN r.games
               /\ r.games[id].owner = inputs.owner
               /\ r.games[id].carPosition = 1
               /\ r.games[id].speed = inputs.initialSpeed
               /\ r.games[id].score = -1
               /\ r.games[id].isGameOver = FALSE
               /\ r.games[id].startedAt = inputs.startedAt
               /\ r.games[id].endedAt = Null
               /\ r.games[id].obstacle = [lane |-> block % 2, z |-> -70]

\* A game has just been created at an odd block timestamp with speed 2 by a
\* caller spelling the owner's address in the other case.
C3_Witness ==
    /\ call.name = "createGame"
    /\ Names(events) = <<"GameCreated">>
    /\ LET id == events[1].value
       IN /\ id \in DOMAIN games
          /\ games[id].speed = 2
          /\ games[id].score = -1
          /\ games[id].obstacle.lane = 1
          /\ games[id].owner # id[1]

\* The transitions that name a game.
GameOps == {"userMove", "generateObstacleAndScoreUpdate", "gameOver", "resetGame"}

MoveInputs(gameId) == [gameId : {gameId}, actionType : ActionTypes, timestamp : Times]

TimedInputs(gameId) == [gameId : {gameId}, timestamp : Times]

OverInputs(gameId) == [gameId : {gameId}, over : BOOLEAN, timestamp : Times]

\* C4: a transition naming a gameId that is no key of the store leaves the
\* store as it was and emits exactly GameNotFound, whoever calls it.
C4_GameNotFound ==
    [][(call'.name \in GameOps /\ call'.gameId \notin DOMAIN games) =>
          /\ games' = games
          /\ events' = <<Event("GameNotFound", <<call'.gameId>>)>>]_vars

\* C5: in every reachable store and for every game in it, each of the four
\* transitions passes its ownership guard for a caller that is the owner's
\* address in any letter case, and for every other caller returns the store
\* as it was with exactly one event, UnauthorizedAction (UnauthorizedReset for
\* resetGame).
C5_Ownership ==
    \A gameId \in DOMAIN games, msgSender \in Addresses, block \in Times :
        LET moves == {userMove(games, i, msgSender, block) : i \in MoveInputs(gameId)}
            scores == {generateObstacleAndScoreUpdate(games, i, msgSender, block) :
                          i \in TimedInputs(gameId)}
            overs == {gameOver(games, i, msgSender) : i \in OverInputs(gameId)}
            resets == {resetGame(games, i, msgSender, block) : i \in TimedInputs(gameId)}
        IN IF SameAddress(msgSender, games[gameId].owner)
           THEN /\ \A r \in moves :
                      Names(r.events) \in {<<>>, <<"CarMovedLeft">>, <<"CarMovedRight">>,
                                           <<"InvalidAction">>}
                /\ \A r \in scores : Names(r.events) = <<"ObstacleGenerated", "ScoreUpdated">>
                /\ \A r \in overs : Names(r.events) = <<"GameOver">>
                /\ \A r \in resets : Names(r.events) = <<"GameReset">>
                /\ \A r \in moves \cup scores \cup overs \cup resets : ~r.threw
           ELSE /\ \A r \in moves \cup scores \cup overs :
                      /\ r.games = games
                      /\ r.events = <<Event("UnauthorizedAction", <<msgSender, gameId>>)>>
                /\ \A r \in resets :
                      /\ r.games = games
                      /\ r.events = <<Event("UnauthorizedReset", <<msgSender, gameId>>)>>

\* A caller spelling the owner's address in the other letter case has just
\* ended the game.
C5_Witness ==
    /\ call.name = "gameOver"
    /\ call.gameId \in DOMAIN games
    /\ events = <<Event("GameOver", <<call.gameId, TRUE>>)>>
    /\ games[call.gameId].owner # call.msgSender
    /\ games[call.gameId].isGameOver

C7_ScoreGrows ==
    [][(call'.name = "generateObstacleAndScoreUpdate"
           /\ Names(events') = <<"ObstacleGenerated", "ScoreUpdated">>) =>
          LET gameId == call'.gameId
          IN /\ games'[gameId].score > games[gameId].score
             /\ games'[gameId].score - games[gameId].score = games[gameId].speed
             /\ events'[2].value = <<gameId, games'[gameId].score>>]_vars

\* C8: every game's speed is at least 1.
C8_SpeedPositive ==
    \A gameId \in DOMAIN games : games[gameId].speed >= 1

WithoutObstacle(game) == [f \in DOMAIN game \ {"obstacle"} |-> game[f]]

C11_Identity ==
    \A id \in DOMAIN games :
        /\ games[id].gameId = id
        /\ id \in DOMAIN created
        /\ games[id].owner = created[id].owner
        /\ games[id].startedAt = created[id].startedAt

\* A game given a mixed-case owner has been reset, two transitions after the
\* createGame that stored it.
C11_Witness ==
    /\ call.name = "resetGame"
    /\ events = <<Event("GameReset", <<call.gameId>>)>>
    /\ games[call.gameId].owner = "0xA"
    /\ games[call.gameId].startedAt \in StartTimes
    /\ steps = 3

\* C12: no transition removes a game. The set of gameIds grows by exactly one
\* on a createGame that emits GameCreated and is unchanged by every other
\* transition and by every guard failure.
C12_IdsGrow ==
    [][/\ DOMAIN games \subseteq DOMAIN games'
       /\ IF call'.name = "createGame" /\ Names(events') = <<"GameCreated">>
          THEN Cardinality(DOMAIN games') = Cardinality(DOMAIN games) + 1
          ELSE DOMAIN games' = DOMAIN games]_vars

\* A second game has been created beside the first.
C12_Witness ==
    /\ call.name = "createGame"
    /\ Names(events) = <<"GameCreated">>
    /\ events[1].value \in DOMAIN games
    /\ Cardinality(DOMAIN games) = 2

\* C13: every obstacle has lane 0 or 1 and z = -70, and each transition that
\* sets an obstacle gives it the lane (timestamp mod 2) of the timestamp it
\* uses: the block timestamp for createGame and resetGame, the timestamp input
\* for generateObstacleAndScoreUpdate.
C13_Obstacle ==
    /\ \A id \in DOMAIN games :
           games[id].obstacle.lane \in {0, 1} /\ games[id].obstacle.z = -70
    /\ \A msgSender \in Addresses, block \in Times, inputs \in CreateInputs :
           LET r == createGame(games, inputs, msgSender, block)
           IN \A id \in DOMAIN r.games \ DOMAIN games :
                  r.games[id].obstacle = [lane |-> block % 2, z |-> -70]
    /\ \A gameId \in DOMAIN games :
           \A msgSender \in Addresses, block \in Times, inputs \in TimedInputs(gameId) :
               LET r == resetGame(games, inputs, msgSender, block)
                   g == generateObstacleAndScoreUpdate(games, inputs, msgSender, block)
               IN /\ Names(r.events) = <<"GameReset">> =>
                         r.games[gameId].obstacle = [lane |-> block % 2, z |-> -70]
                  /\ Names(g.events) = <<"ObstacleGenerated", "ScoreUpdated">> =>
                         g.games[gameId].obstacle =
                             [lane |-> inputs.timestamp % 2, z |-> -70]

\* An obstacle has just been generated from an even timestamp input, in a game
\* whose obstacle was in lane 1 when it was created.
C13_Witness ==
    /\ call.name = "generateObstacleAndScoreUpdate"
    /\ call.timestamp = 2
    /\ call.gameId \in DOMAIN games
    /\ call.gameId[2] = 1
    /\ games[call.gameId].obstacle = [lane |-> 0, z |-> -70]

\* Action types that are neither "moveLeft" nor "moveRight"; the comparison
\* of the switch is exact, so a different letter case is another action type.
OtherActions == {"accelerate", "decelerate", "MoveLeft", "moveright", ""}

C16_Timestamps ==
    \A gameId \in DOMAIN games :
        \A msgSender \in Addresses, block \in Times, timestamp \in Times :
            LET inputs == [gameId |-> gameId, timestamp |-> timestamp]
                r == resetGame(games, inputs, msgSender, block)
                g == generateObstacleAndScoreUpdate(games, inputs, msgSender, block)
            IN /\ \A other \in Times :
                      r = resetGame(games, [inputs EXCEPT !.timestamp = other],
                                    msgSender, block)
               /\ Names(r.events) = <<"GameReset">> =>
                      r.games[gameId].obstacle.lane = block % 2
               /\ \A other \in Times :
                      g = generateObstacleAndScoreUpdate(games, inputs, msgSender, other)
               /\ Names(g.events) = <<"ObstacleGenerated", "ScoreUpdated">> =>
                      g.games[gameId].obstacle.lane = timestamp % 2
               /\ \A actionType \in ActionTypes, other \in Times :
                      userMove(games, [gameId |-> gameId, actionType |-> actionType,
                                       timestamp |-> timestamp], msgSender, block)
                      = userMove(games, [gameId |-> gameId, actionType |-> actionType,
                                         timestamp |-> other], msgSender, block)

\* A game has just been reset with an even timestamp input and its new
\* obstacle is in lane 1, the lane of an odd block timestamp.
C16_Witness ==
    /\ call.name = "resetGame"
    /\ events = <<Event("GameReset", <<call.gameId>>)>>
    /\ call.timestamp = 2
    /\ games[call.gameId].obstacle.lane = 1

\* C17: isGameOver stops nothing. From every reachable store and for every
\* game that is marked over, a generateObstacleAndScoreUpdate by the owner
\* stores a new obstacle and the score plus the speed, and a userMove by the
\* owner moves the car as for a game that is not over: left from lane 1,
\* right from lane 0. The game stays marked over.
C17_NoFreeze ==
    \A gameId \in DOMAIN games :
        \A msgSender \in Addresses, block \in Times, timestamp \in Times :
            (games[gameId].isGameOver /\ SameAddress(msgSender, games[gameId].owner)) =>
                LET game == games[gameId]
                    g == generateObstacleAndScoreUpdate(
                             games, [gameId |-> gameId, timestamp |-> timestamp],
                             msgSender, block)
                    m == userMove(games,
                                  [gameId |-> gameId, timestamp |-> timestamp,
                                   actionType |-> IF game.carPosition = 1
                                                  THEN "moveLeft" ELSE "moveRight"],
                                  msgSender, block)
                IN /\ g.games = [games EXCEPT
                                    ![gameId].obstacle = [lane |-> timestamp % 2, z |-> -70],
                                    ![gameId].score = game.score + game.speed]
                   /\ Names(g.events) = <<"ObstacleGenerated", "ScoreUpdated">>
                   /\ m.games = [games EXCEPT ![gameId].carPosition = 1 - game.carPosition]
                   /\ Names(m.events) = <<IF game.carPosition = 1
                                          THEN "CarMovedLeft" ELSE "CarMovedRight">>

\* A game that is marked over has just had its score raised from -1 to 1, and
\* its car has been moved since the game was created or last reset.
C17_Witness ==
    /\ call.name = "generateObstacleAndScoreUpdate"
    /\ call.gameId \in DOMAIN games
    /\ games[call.gameId].isGameOver
    /\ games[call.gameId].endedAt # Null
    /\ games[call.gameId].speed = 2
    /\ events[2] = Event("ScoreUpdated", <<call.gameId, 1>>)
    /\ leftLast[call.gameId]
    /\ games[call.gameId].carPosition = 0

\* C18: a transition changes at most the record stored under the gameId it
\* names: every other record of the store is kept as it was, and createGame,
\* which names none, keeps every record it finds.
C18_OtherGames ==
    [][\A id \in DOMAIN games :
           id # call'.gameId => id \in DOMAIN games' /\ games'[id] = games[id]]_vars

\* One of two games has just been marked over; the other is as createGame
\* stored it.
C18_Witness ==
    /\ call.name = "gameOver"
    /\ events = <<Event("GameOver", <<call.gameId, TRUE>>)>>
    /\ games[call.gameId].isGameOver
    /\ \E other \in DOMAIN games \ {call.gameId} :
           /\ ~games[other].isGameOver
           /\ games[other].endedAt = Null
           /\ games[other].score = -1

\* C19: per game, the first move event after GameCreated or GameReset is
\* CarMovedLeft, and from then on CarMovedLeft and CarMovedRight alternate
\* until the next GameReset: CarMovedRight is only ever emitted when the last
\* move event of the game since then was CarMovedLeft, and CarMovedLeft only
\* when there was none or it was CarMovedRight.
C19_Alternate ==
    [][/\ Names(events') = <<"CarMovedLeft">> => ~leftLast[call'.gameId]
       /\ Names(events') = <<"CarMovedRight">> => leftLast[call'.gameId]]_vars

\* The car has just moved right in a game that has been reset: the reset
\* put it in lane 1, so it has moved left in between.
C19_Witness ==
    /\ call.name = "userMove"
    /\ events = <<Event("CarMovedRight", <<1>>)>>
    /\ ~leftLast[call.gameId]
    /\ games[call.gameId].speed = 1
    /\ games[call.gameId].score = 0

\* C20: a game that is marked over has an endedAt: isGameOver = true implies
\* endedAt is not null.
C20_EndedWhenOver ==
    \A id \in DOMAIN games : games[id].isGameOver => games[id].endedAt # Null

\* A game has just been marked over at timestamp 2, its score having been
\* raised or reset since it was created.
C20_Witness ==
    /\ call.name = "gameOver"
    /\ call.gameId \in DOMAIN games
    /\ games[call.gameId].isGameOver
    /\ games[call.gameId].endedAt = Some(2)
    /\ games[call.gameId].score >= 0
====
